---- MODULE Spec2Model ----
(***************************************************************************)
(* EEWL, EEPROM wear leveling: a circular buffer of blk_num blocks, each   *)
(* one marker byte followed by the payload bytes of one record.  The model *)
(* follows the crash-hardened struct EEWL (src/src/eewl.h, third version   *)
(* of the class in that file) on a medium whose single byte writes are     *)
(* durable one by one (AVR EEPROM, or the EEWL_RAM buffer).                *)
(***************************************************************************)
EXTENDS Integers, Naturals, Sequences, FiniteSets, TLC

(* ---------------- bounds of the model ---------------- *)

\* largest circular buffer length (blk_num_) an engine is constructed with
MaxBlkNum == 4

\* sizeof(T): payload bytes of one record
PayloadSize == 2

\* number of put calls (completed or interrupted) in one behaviour
MaxPuts == 2

\* number of puts in a row in the wear runs
MaxWearPuts == 6

\* number of power cycles of the power-off-safety sketch
MaxCycles == 12

(* ---------------- program constants ---------------- *)

\* BUFFER_LEN of the example sketches
BUFFER_LEN == 10

\* marker byte of a free block
FREE == 255

\* default member initializer of blk_mark
InitMark == 254

\* BUFFER_START of the example sketches
BUFFER_START == 16

\* blk_size = sizeof(T) + 1
blk_size == PayloadSize + 1

\* marker bytes found on a medium that was not written by this engine
MarkerVals == {FREE, 127, 0}

\* payload found in every block of a medium never written by this engine
Garbage == [i \in 1..PayloadSize |-> 9]

\* records the application stores
Payloads == { [i \in 1..PayloadSize |-> 1], [i \in 1..PayloadSize |-> 2] }

\* value of the application's record variable before the first get
InitData == [i \in 1..PayloadSize |-> 0]

VARIABLES
  blk_num,    \* geometry: number of blocks
  start_addr, \* geometry: address of the first block
  blk_addr,   \* engine: address of the current block, 0 = none
  blk_mark,   \* engine: last marker used
  mem,        \* medium: byte at each address of the buffer
  data,       \* application: the record variable handed to get
  ret,        \* application: value returned by the last get
  pc,         \* "off": constructed, begin not yet run; "run": begin done
  blocks,     \* begin: blocks_addr[0..blocks_count-1] when begin returned
  op,         \* name of the last operation
  phase,      \* where the last put stands: none, put, crashed, cycled, recovered
  hist,       \* the last put: payload, previous record, writes done
  nput,       \* number of put calls so far
  wear        \* puts run to their end in a row, and their writes per address

vars == <<blk_num, start_addr, blk_addr, blk_mark, mem, data, ret, pc, blocks, op, phase, hist, nput, wear>>

(* ---------------- geometry ---------------- *)

\* end_addr = start_addr + blk_num * blk_size
EndAddr(n) == start_addr + n * blk_size

\* base addresses of the blocks of a buffer of n blocks
BlockAddrs(n) == { start_addr + i * blk_size : i \in 0..(n - 1) }

\* addresses of the medium that belong to the buffer
Addrs(n) == start_addr..(EndAddr(n) - 1)

(* ---------------- helpers: the medium ---------------- *)

\* blocks whose marker byte is not free
NonFree(m, n) == { a \in BlockAddrs(n) : m[a] # FREE }

\* the medium after the first k writes of the list ws, in order (EE_WRITE)
RECURSIVE ApplyWrites(_, _, _)
ApplyWrites(m, ws, k) ==
  IF k = 0 THEN m
  ELSE LET p == ApplyWrites(m, ws, k - 1)
       IN  [p EXCEPT ![ws[k][1]] = ws[k][2]]

(* ---------------- fastFormat ---------------- *)

\* mutant: the format loop stops one block short of the end
FormatMemSkipLast(m, n) ==
  [a \in Addrs(n) |->
     IF a \in BlockAddrs(n) /\ a + blk_size < EndAddr(n) THEN FREE ELSE m[a]]

\* mutant: the format loop stops after the first marker it had to free
FormatMemFirstOnly(m, n) ==
  [a \in Addrs(n) |->
     IF a \in BlockAddrs(n) /\ \A b \in BlockAddrs(n) : (b < a => m[b] = FREE)
     THEN FREE ELSE m[a]]

\* for (addr = start_addr; addr < end_addr; addr += blk_size) EE_WRITE(addr,0xff)
FormatMem(m, n) ==
  [a \in Addrs(n) |-> IF a \in BlockAddrs(n) THEN FREE ELSE m[a]]

(* ---------------- begin ---------------- *)

\* mutant: the scan gives up one marker too late
TooManyLate(cnt) == cnt > 3

\* if (++blocks_count > 2): formatting is needed
TooMany(cnt) == cnt > 2

\* the scan loop of begin from address addr on, with blocks_count = cnt and
\* blocks_addr = found so far; stops at the block that makes the count too many
RECURSIVE ScanFrom(_, _, _, _, _)
ScanFrom(m, n, addr, cnt, found) ==
  IF addr >= EndAddr(n) THEN [count |-> cnt, addr |-> found]
  ELSE IF m[addr] # FREE
       THEN IF TooMany(cnt + 1)
            THEN [count |-> cnt + 1, addr |-> found]
            ELSE ScanFrom(m, n, addr + blk_size, cnt + 1, Append(found, addr))
       ELSE ScanFrom(m, n, addr + blk_size, cnt, found)

\* mutant: the second block is looked for one payload after the first
IsConsecutivePayload(a, b) == a + PayloadSize = b

\* regular consecutive blocks: blocks_addr[0] + blk_size == blocks_addr[1]
IsConsecutive(a, b) == a + blk_size = b

\* mutant: the wrapped case is never recognised
IsWrappedNever(a, b) == FALSE

\* consecutive blocks wrapped around the end: blocks_addr[0] == start_addr
IsWrapped(a, b) == a = start_addr

\* mutant: the earlier block of a consecutive pair survives
KeepSecondSwapped(m, a, b) == [mem |-> [m EXCEPT ![b] = FREE], blk_addr |-> a, fmt |-> FALSE]

\* case 2, consecutive: the later block survives, the earlier one is freed
KeepSecond(m, a, b) == [mem |-> [m EXCEPT ![a] = FREE], blk_addr |-> b, fmt |-> FALSE]

\* mutant: the first block of a wrapped pair is freed
KeepFirstSwapped(m, a, b) == [mem |-> [m EXCEPT ![a] = FREE], blk_addr |-> b, fmt |-> FALSE]

\* case 2, wrapped: the first block survives, the later one is freed
KeepFirst(m, a, b) == [mem |-> [m EXCEPT ![b] = FREE], blk_addr |-> start_addr, fmt |-> FALSE]

\* fastFormat called from begin
Reformat(m, n) == [mem |-> FormatMem(m, n), blk_addr |-> 0, fmt |-> TRUE]

\* mutant: the wrapped case is taken for the consecutive one, and the other
\* way round, so that blk_addr is left on the block that was freed
CaseTwoStale(m, n, a, b) ==
  IF IsConsecutive(a, b) THEN [mem |-> [m EXCEPT ![a] = FREE], blk_addr |-> a, fmt |-> FALSE]
  ELSE IF IsWrapped(a, b) THEN [mem |-> [m EXCEPT ![b] = FREE], blk_addr |-> b, fmt |-> FALSE]
  ELSE Reformat(m, n)

\* switch (blocks_count), case 2
CaseTwo(m, n, a, b) ==
  IF IsConsecutive(a, b) THEN KeepSecond(m, a, b)
  ELSE IF IsWrapped(a, b) THEN KeepFirst(m, a, b)
  ELSE Reformat(m, n)

\* mutant: case 1 of the switch forgets to set blk_addr
BeginResultNoCaseOne(m, n) ==
  LET s == ScanFrom(m, n, start_addr, 0, <<>>)
      r == IF TooMany(s.count) THEN Reformat(m, n)
           ELSE IF s.count = 2 THEN CaseTwo(m, n, s.addr[1], s.addr[2])
           ELSE [mem |-> m, blk_addr |-> 0, fmt |-> FALSE]
  IN  [mem |-> r.mem, blk_addr |-> r.blk_addr,
       blocks |-> [count |-> s.count, addr |-> s.addr, fmt |-> r.fmt]]

\* begin: medium and blk_addr when it returns, with its locals
BeginResult(m, n) ==
  LET s == ScanFrom(m, n, start_addr, 0, <<>>)
      r == IF TooMany(s.count) THEN Reformat(m, n)
           ELSE IF s.count = 0 THEN [mem |-> m, blk_addr |-> 0, fmt |-> FALSE]
           ELSE IF s.count = 1 THEN [mem |-> m, blk_addr |-> s.addr[1], fmt |-> FALSE]
           ELSE IF s.count = 2 THEN CaseTwo(m, n, s.addr[1], s.addr[2])
           ELSE [mem |-> m, blk_addr |-> 0, fmt |-> FALSE]
  IN  [mem |-> r.mem, blk_addr |-> r.blk_addr,
       blocks |-> [count |-> s.count, addr |-> s.addr, fmt |-> r.fmt]]

(* ---------------- get ---------------- *)

\* return value of get: 0 when there is no current block
GetRet(a) == IF a = 0 THEN 0 ELSE 1

\* mutant: get copies from the marker byte on
ReadBlockFromMarker(m, a) == [i \in 1..PayloadSize |-> m[a + i - 1]]

\* bytes copied from the medium: data_addr = blk_addr + 1 .. blk_addr + blk_size - 1
ReadBlock(m, a) == [i \in 1..PayloadSize |-> m[a + i]]

\* mutant: get clears the caller's record when there is no current block
GetDataClears(m, a, buf) ==
  IF a = 0 THEN [i \in 1..PayloadSize |-> 0] ELSE ReadBlock(m, a)

\* the caller's record after get
GetData(m, a, buf) == IF a = 0 THEN buf ELSE ReadBlock(m, a)

\* get as the caller sees it: <<record, found>>
Get(m, a, buf) == <<GetData(m, a, buf), GetRet(a) = 1>>

(* ---------------- put ---------------- *)

\* mutant: the rotation keeps 0xff when the shift yields it
RotateNoFallback(mark) == (mark * 2 + 1) % 256

\* marker rotation: shift left, set the low bit, keep one byte, never 0xff
Rotate(mark) ==
  LET r == (mark * 2 + 1) % 256
  IN  IF r = FREE THEN 254 ELSE r

\* old_blk_addr
OldBlock(a) == a

\* mutant: put forgets to advance to the next block
NewBlockStuck(a, n) == IF a # 0 THEN a ELSE start_addr

\* mutant: the wrap is taken only past end_addr
NewBlockWrapLate(a, n) ==
  IF a # 0
  THEN IF a + blk_size > EndAddr(n) THEN start_addr ELSE a + blk_size
  ELSE start_addr

\* new_blk_addr: the next block, wrapping at end_addr; the first when empty
NewBlock(a, n) ==
  IF a # 0
  THEN IF a + blk_size >= EndAddr(n) THEN start_addr ELSE a + blk_size
  ELSE start_addr

\* mutant: put does not read the old block's marker
NewMarkStale(m, a, mark) == Rotate(mark)

\* blk_mark after put: rotated from the old block's marker, if there is one
NewMark(m, a, mark) == Rotate(IF a # 0 THEN m[a] ELSE mark)

\* mutant: the payload is written one byte further than its block
PayloadWritesShifted(new, P) == [i \in 1..PayloadSize |-> <<new + i + 1, P[i]>>]

\* the payload writes of put, in order
PayloadWrites(new, P) == [i \in 1..PayloadSize |-> <<new + i, P[i]>>]

\* mutant: put never frees the old block
MarkerWritesNoFree(old, new, mark) == << <<new, mark>> >>

\* the marker writes of put, in order: the new block's, then the old block's
MarkerWrites(old, new, mark) ==
  IF old # 0 THEN << <<new, mark>>, <<old, FREE>> >> ELSE << <<new, mark>> >>

\* mutant: put writes the markers first and the payload last
PutWritesMarkerFirst(m, n, a, mark, P) ==
  MarkerWrites(OldBlock(a), NewBlock(a, n), NewMark(m, a, mark))
    \o PayloadWrites(NewBlock(a, n), P)

\* every EE_WRITE of put, in order
PutWrites(m, n, a, mark, P) ==
  PayloadWrites(NewBlock(a, n), P)
    \o MarkerWrites(OldBlock(a), NewBlock(a, n), NewMark(m, a, mark))

(* ---------------- state machine ---------------- *)

\* no put has run since the last other operation
NoWear == [k |-> 0, wr |-> [a \in Addrs(blk_num) |-> 0]]

\* the write counts wr after the first k writes of the list ws
RECURSIVE CountWrites(_, _, _)
CountWrites(wr, ws, k) ==
  IF k = 0 THEN wr
  ELSE LET p == CountWrites(wr, ws, k - 1)
       IN  [p EXCEPT ![ws[k][1]] = @ + 1]

\* the record as an unsigned number, low byte first
ValueOf(d) ==
  LET RECURSIVE Sum(_)
      Sum(i) == IF i = 0 THEN 0 ELSE d[i] * 256 ^ (i - 1) + Sum(i - 1)
  IN  Sum(PayloadSize)

\* powerCycles++ on the bytes of the record
Increment(d) ==
  [i \in 1..PayloadSize |->
     (((ValueOf(d) + 1) % (256 ^ PayloadSize)) \div (256 ^ (i - 1))) % 256]

\* begin has not run since the last put
NoBlocks == [count |-> 0, addr |-> <<>>, fmt |-> FALSE]

\* no put yet
NoHist == [P |-> InitData, V |-> InitData, had |-> FALSE, k |-> 0, n |-> 0,
           old |-> 0, new |-> 0]

\* the record of a put of P that did its first k medium writes
HistOf(P, k) ==
  [P |-> P, V |-> GetData(mem, blk_addr, InitData), had |-> blk_addr # 0,
   k |-> k, n |-> Len(PutWrites(mem, blk_num, blk_addr, blk_mark, P)),
   old |-> OldBlock(blk_addr), new |-> NewBlock(blk_addr, blk_num)]

\* blk_addr has no initializer: a constructed engine holds any of these
UninitAddrs == {0, start_addr}

\* a medium of n blocks never written by this engine
Media(n) ==
  { [a \in Addrs(n) |->
       IF a \in BlockAddrs(n) THEN mk[a] ELSE Garbage[((a - start_addr) % blk_size)]]
    : mk \in [BlockAddrs(n) -> MarkerVals] }

\* the constructor called with start_addr_ = s: geometry set, blk_mark = 0xfe,
\* blk_addr not set; no argument is refused
Constructed(s) ==
  /\ start_addr = s
  /\ blk_num \in 1..MaxBlkNum
  /\ mem \in Media(blk_num)
  /\ blk_addr \in UninitAddrs
  /\ blk_mark = InitMark
  /\ data = InitData
  /\ ret = 0
  /\ pc = "off"
  /\ blocks = NoBlocks
  /\ op = "init"
  /\ phase = "none"
  /\ hist = NoHist
  /\ nput = 0
  /\ wear = NoWear

\* an engine constructed as in the example sketches
Init == Constructed(BUFFER_START)

\* an engine constructed with start_addr_ = 0
InitZero == Constructed(0)

\* begin()
Begin ==
  LET r == BeginResult(mem, blk_num) IN
  /\ mem' = r.mem
  /\ blk_addr' = r.blk_addr
  /\ blocks' = r.blocks
  /\ pc' = "run"
  /\ op' = "begin"
  /\ phase' = IF pc = "off" /\ phase \in {"crashed", "cycled"} THEN "recovered" ELSE "none"
  /\ wear' = NoWear
  /\ UNCHANGED <<blk_num, start_addr, blk_mark, data, ret, hist, nput>>

\* fastFormat()
FastFormat ==
  /\ pc = "run"
  /\ mem' = FormatMem(mem, blk_num)
  /\ blk_addr' = 0
  /\ op' = "fastFormat"
  /\ phase' = "none"
  /\ blocks' = NoBlocks
  /\ wear' = NoWear
  /\ UNCHANGED <<blk_num, start_addr, blk_mark, data, ret, pc, hist, nput>>

\* get(data)
DoGet ==
  /\ pc = "run"
  /\ data' = GetData(mem, blk_addr, data)
  /\ ret' = GetRet(blk_addr)
  /\ op' = "get"
  /\ UNCHANGED <<blk_num, start_addr, blk_addr, blk_mark, mem, pc, blocks, phase, hist, nput, wear>>

\* put(P), run to its end
PutBody(P) ==
  LET ws == PutWrites(mem, blk_num, blk_addr, blk_mark, P) IN
  /\ pc = "run"
  /\ mem' = ApplyWrites(mem, ws, Len(ws))
  /\ wear' = [k |-> wear.k + 1, wr |-> CountWrites(wear.wr, ws, Len(ws))]
  /\ blk_addr' = NewBlock(blk_addr, blk_num)
  /\ blk_mark' = NewMark(mem, blk_addr, blk_mark)
  /\ op' = "put"
  /\ phase' = "put"
  /\ hist' = HistOf(P, Len(ws))
  /\ nput' = nput + 1
  /\ blocks' = NoBlocks
  /\ UNCHANGED <<blk_num, start_addr, data, ret, pc>>

\* put(P) by an application that puts a few times
Put(P) == nput < MaxPuts /\ PutBody(P)

\* power off and on: the medium stays, the engine and the application are
\* constructed anew
Restart ==
  /\ blk_addr' \in UninitAddrs
  /\ blk_mark' = InitMark
  /\ data' = InitData
  /\ ret' = 0
  /\ pc' = "off"
  /\ blocks' = NoBlocks

\* put(P) cut by a power loss after its first k medium writes
PutCut(P, k) ==
  LET ws == PutWrites(mem, blk_num, blk_addr, blk_mark, P) IN
  /\ pc = "run"
  /\ k \in 0..Len(ws)
  /\ wear' = NoWear
  /\ mem' = ApplyWrites(mem, ws, k)
  /\ Restart
  /\ op' = "crash"
  /\ phase' = "crashed"
  /\ hist' = HistOf(P, k)
  /\ nput' = nput + 1
  /\ UNCHANGED <<blk_num, start_addr>>

\* a put cut by a power loss, by an application that puts a few times
PutCrash(P, k) == nput < MaxPuts /\ PutCut(P, k)

\* power cycle between two operations
PowerCycle ==
  /\ pc = "run"
  /\ Restart
  /\ op' = "power"
  /\ phase' = IF phase = "put" THEN "cycled" ELSE "none"
  /\ wear' = NoWear
  /\ UNCHANGED <<blk_num, start_addr, mem, hist, nput>>

Next ==
  \/ Begin
  \/ FastFormat
  \/ DoGet
  \/ \E P \in Payloads : Put(P)
  \/ \E P \in Payloads : \E k \in 0..(PayloadSize + 2) : PutCrash(P, k)
  \/ PowerCycle

Spec == Init /\ [][Next]_vars

\* an application that, after begin, only puts: its counter, incremented
WearPut == nput < MaxWearPuts /\ PutBody(Increment(hist.P))

\* begin once, then puts in a row
NextWear ==
  \/ (pc = "off" /\ Begin)
  \/ WearPut

SpecWear == Init /\ [][NextWear]_vars

\* a medium of n blocks with every marker free
Blank(n) ==
  [a \in Addrs(n) |->
     IF a \in BlockAddrs(n) THEN FREE ELSE Garbage[((a - start_addr) % blk_size)]]

\* the media the sketch is first run on: blank, or left with one record
HarnessMedia(n) ==
  {Blank(n)} \cup
  { [Blank(n) EXCEPT ![b] = v] : b \in BlockAddrs(n), v \in MarkerVals \ {FREE} }

\* the power-off-safety sketch: EEWL pC(powerCycles, BUFFER_LEN, BUFFER_START)
InitHarness ==
  /\ start_addr = BUFFER_START
  /\ blk_num = BUFFER_LEN
  /\ mem \in HarnessMedia(blk_num)
  /\ blk_addr \in UninitAddrs
  /\ blk_mark = InitMark
  /\ data = InitData
  /\ ret = 0
  /\ pc = "off"
  /\ blocks = NoBlocks
  /\ op = "init"
  /\ phase = "none"
  /\ hist = NoHist
  /\ nput = 0
  /\ wear = NoWear

\* setup: pC.begin()
HarnessBegin == pc = "off" /\ Begin

\* setup: pC.get(powerCycles)
HarnessGet == op = "begin" /\ DoGet

\* setup: powerCycles++; pC.put(powerCycles), by the put that never frees the
\* old block; then the power goes
HarnessPut ==
  /\ op = "get"
  /\ nput < MaxCycles
  /\ PutCut(Increment(data), PayloadSize + 1)

NextHarness ==
  \/ HarnessBegin
  \/ HarnessGet
  \/ HarnessPut

SpecHarness == InitHarness /\ [][NextHarness]_vars

\* the engine constructed at address 0
SpecZero == InitZero /\ [][Next]_vars

\* media whose first block carries any byte as its marker, the rest free
MarkedMedia(n) == { [Blank(n) EXCEPT ![start_addr] = v] : v \in 0..255 }

\* an engine constructed on such a medium
InitRotate ==
  /\ start_addr = BUFFER_START
  /\ blk_num \in 1..MaxBlkNum
  /\ mem \in MarkedMedia(blk_num)
  /\ blk_addr \in UninitAddrs
  /\ blk_mark = InitMark
  /\ data = InitData
  /\ ret = 0
  /\ pc = "off"
  /\ blocks = NoBlocks
  /\ op = "init"
  /\ phase = "none"
  /\ hist = NoHist
  /\ nput = 0
  /\ wear = NoWear

\* begin once, then puts in a row, each rotating the marker before it
NextRotate ==
  \/ (pc = "off" /\ Begin)
  \/ WearPut

SpecRotate == InitRotate /\ [][NextRotate]_vars

\* an engine constructed on a formatted buffer of two blocks or more
InitClean ==
  /\ start_addr = BUFFER_START
  /\ blk_num \in 2..MaxBlkNum
  /\ mem = Blank(blk_num)
  /\ blk_addr \in UninitAddrs
  /\ blk_mark = InitMark
  /\ data = InitData
  /\ ret = 0
  /\ pc = "off"
  /\ blocks = NoBlocks
  /\ op = "init"
  /\ phase = "none"
  /\ hist = NoHist
  /\ nput = 0
  /\ wear = NoWear

\* a put of the incremented counter cut after its first k medium writes
WearCrash(k) == nput < MaxWearPuts /\ PutCut(Increment(hist.P), k)

\* begin, puts run to their end or cut, and power cycles, with nothing else
\* writing to the medium
NextClean ==
  \/ Begin
  \/ WearPut
  \/ \E k \in 0..(PayloadSize + 2) : WearCrash(k)
  \/ PowerCycle

SpecClean == InitClean /\ [][NextClean]_vars

TypeOK ==
  /\ blk_num \in 1..MaxBlkNum
  /\ blk_addr \in {0} \cup BlockAddrs(blk_num)
  /\ blk_mark \in 0..254
  /\ mem \in [Addrs(blk_num) -> 0..255]
  /\ pc \in {"off", "run"}

(* ---------------- interrupted put and recovery ---------------- *)

\* what get returns in the present state
GetNow == Get(mem, blk_addr, data)

\* begin has just run after a power loss that followed the last put
Recovered == phase = "recovered" /\ op = "begin"

\* C1: a put cut right after the new block's marker is written and before
\* the old block's marker is freed is recovered by begin as the new record,
\* and the old block's marker is free after begin, for every buffer length
\* and every current block, the last one included.
C1_NewValueAfterMarkerCrash ==
  (Recovered /\ hist.had /\ hist.k = PayloadSize + 1)
    => (GetNow = <<hist.P, TRUE>> /\ mem[hist.old] = FREE)

\* C2: a put cut before the new block's marker is written leaves the old
\* record to be recovered by begin, byte for byte, for every buffer length.
C2_OldValueBeforeMarkerCrash ==
  (Recovered /\ hist.had /\ hist.k <= PayloadSize)
    => GetNow = <<hist.V, TRUE>>

\* C3: a put cut after any number of its medium writes leaves one or two
\* non-free markers, and begin then recovers the old record or the new one,
\* never a mixture and never nothing.
C3_AtomicPut ==
  /\ (phase = "crashed" /\ hist.had)
       => Cardinality(NonFree(mem, blk_num)) \in 1..2
  /\ (Recovered /\ hist.had)
       => GetNow \in {<<hist.V, TRUE>>, <<hist.P, TRUE>>}

\* C4: after a put that ran to its end, a power cycle followed by begin and
\* get returns the record put, for every buffer length.
C4_Durable ==
  (Recovered /\ hist.k = hist.n) => GetNow = <<hist.P, TRUE>>

\* the two-block case: a put that wrapped to the first block and was cut after
\* its marker write is recovered as the old record
TwoBlockWrapLost ==
  /\ Recovered /\ blk_num = 2 /\ hist.k = PayloadSize + 1
  /\ hist.new = start_addr /\ hist.had
  /\ GetNow = <<hist.V, TRUE>> /\ hist.V # hist.P

(* ---------------- in-session behaviour ---------------- *)

\* C5: in every state reached by begin, put, get and fastFormat, a put of P
\* that has just returned makes get return found and a record equal to P,
\* byte for byte.
C5_RoundTrip == (op = "put") => GetNow = <<hist.P, TRUE>>

\* a second put, on a buffer emptied after the first, is read back
C5_Witness ==
  /\ op = "put" /\ nput = 2 /\ ~hist.had
  /\ GetNow = <<hist.P, TRUE>> /\ hist.P # Garbage

\* C6: whenever begin has run and no operation is under way, at most one
\* block has a non-free marker, and that block is the current one.
C6_SingleValidBlock ==
  (pc = "run") =>
     /\ Cardinality(NonFree(mem, blk_num)) <= 1
     /\ \A a \in NonFree(mem, blk_num) : a = blk_addr

\* a put that moved the record from one block to the next
C6_Witness ==
  /\ pc = "run" /\ op = "put" /\ hist.had /\ hist.old # hist.new
  /\ NonFree(mem, blk_num) = {blk_addr}

(* ---------------- begin, by the markers it finds ---------------- *)

\* the last block of a buffer of n blocks
LastBlock(n) == start_addr + (n - 1) * blk_size

\* the step is a call of begin
BeginStep == op' = "begin"

\* begin left an empty, formatted buffer
Formatted(m, a, buf, n) ==
  /\ NonFree(m, n) = {}
  /\ a = 0
  /\ Get(m, a, buf)[2] = FALSE

\* two non-free markers that are neither on consecutive blocks nor on the
\* first and the last block
StrayPair(m, n) ==
  /\ Cardinality(NonFree(m, n)) = 2
  /\ ~ \E a \in NonFree(m, n) : a + blk_size \in NonFree(m, n)
  /\ NonFree(m, n) # {start_addr, LastBlock(n)}

\* C7: when begin finds two non-free markers that are neither consecutive
\* nor first and last, it formats: all markers free, no current block, get
\* finds nothing.
C7_StrayPairFormats ==
  [][(BeginStep /\ StrayPair(mem, blk_num))
       => Formatted(mem', blk_addr', data', blk_num)]_vars

\* C8: when three or more markers are non-free, begin formats: all markers
\* free, no current block, get finds nothing.
C8_ManyMarkersFormat ==
  [][(BeginStep /\ Cardinality(NonFree(mem, blk_num)) >= 3)
       => Formatted(mem', blk_addr', data', blk_num)]_vars

\* begin returned from the scan with a third marker seen
C8_Witness ==
  /\ op = "begin" /\ blocks.count = 3 /\ blocks.fmt
  /\ NonFree(mem, blk_num) = {} /\ blk_addr = 0

\* C9: when begin finds non-free markers on exactly the first and the last
\* block, and the last is not next to the first, it frees the last block's
\* marker, changes no other byte, and makes the first block current.
C9_WrappedPair ==
  [][(/\ BeginStep
      /\ NonFree(mem, blk_num) = {start_addr, LastBlock(blk_num)}
      /\ LastBlock(blk_num) > start_addr + blk_size)
       => (/\ mem' = [mem EXCEPT ![LastBlock(blk_num)] = FREE]
           /\ blk_addr' = start_addr)]_vars

\* begin after a put that wrapped to the first block and was cut before the
\* last block was freed
C9_Witness ==
  /\ Recovered /\ blk_num >= 3
  /\ blocks.count = 2 /\ blocks.addr = <<start_addr, LastBlock(blk_num)>>
  /\ hist.new = start_addr /\ hist.old = LastBlock(blk_num)
  /\ blk_addr = start_addr /\ mem[LastBlock(blk_num)] = FREE

\* C10: when begin finds exactly two non-free markers, on blocks A and
\* A + blk_size, it frees A's marker, changes no other byte, and makes
\* A + blk_size current.
C10_ConsecutivePair ==
  [][\A a \in BlockAddrs(blk_num) :
       (BeginStep /\ NonFree(mem, blk_num) = {a, a + blk_size})
         => (/\ mem' = [mem EXCEPT ![a] = FREE]
             /\ blk_addr' = a + blk_size)]_vars

\* begin after a put that was cut before the old block was freed
C10_Witness ==
  /\ Recovered /\ blocks.count = 2
  /\ blocks.addr = <<hist.old, hist.new>> /\ hist.old + blk_size = hist.new
  /\ blk_addr = hist.new /\ mem[hist.old] = FREE /\ mem[hist.new] # FREE

(* ---------------- begin on a clean medium ---------------- *)

\* C11: when begin finds no non-free marker it sets blk_addr to 0, when it
\* finds exactly one it sets blk_addr to that block; in both cases no byte
\* of the medium changes.
C11_CleanBeginWritesNothing ==
  [][(BeginStep /\ Cardinality(NonFree(mem, blk_num)) <= 1)
       => (/\ mem' = mem
           /\ NonFree(mem, blk_num) = {} => blk_addr' = 0
           /\ \A a \in NonFree(mem, blk_num) : blk_addr' = a)]_vars

\* begin found one block, not the first, and made it current
C11_Witness ==
  /\ op = "begin" /\ blocks.count = 1 /\ ~blocks.fmt
  /\ blk_addr # 0 /\ blk_addr # start_addr
  /\ NonFree(mem, blk_num) = {blk_addr}

(* ---------------- fastFormat and get ---------------- *)

\* the step is a call of fastFormat
FormatStep == op' = "fastFormat"

\* the step is a call of get
GetStep == op' = "get"

\* C16: after fastFormat every marker is free, every payload byte is as it
\* was, blk_addr is 0 and get finds nothing; after a power cycle, begin and
\* get find nothing either.
C16_FastFormatPost ==
  [][FormatStep =>
       /\ \A a \in Addrs(blk_num) :
            mem'[a] = IF a \in BlockAddrs(blk_num) THEN FREE ELSE mem[a]
       /\ blk_addr' = 0
       /\ Get(mem', blk_addr', data')[2] = FALSE
       /\ LET r == BeginResult(mem', blk_num)
          IN  Get(r.mem, r.blk_addr, InitData)[2] = FALSE]_vars

\* fastFormat emptied a buffer that held a record
C16_Witness ==
  /\ op = "fastFormat" /\ nput > 0 /\ phase = "none"
  /\ NonFree(mem, blk_num) = {} /\ blk_addr = 0
  /\ \E a \in BlockAddrs(blk_num) : ReadBlock(mem, a) = hist.P

\* C17: get with no current block returns false and leaves the caller's
\* record as it was; get never changes the medium, blk_addr or blk_mark.
C17_GetReadOnly ==
  [][GetStep =>
       /\ mem' = mem /\ blk_addr' = blk_addr /\ blk_mark' = blk_mark
       /\ (blk_addr = 0) => (ret' = 0 /\ data' = data)]_vars

\* get on an emptied buffer left a record read earlier in the caller's hands
C17_Witness ==
  /\ op = "get" /\ ret = 0 /\ blk_addr = 0 /\ data # InitData

(* ---------------- idempotence ---------------- *)

\* C18: a second begin right after a begin leaves the medium and blk_addr as
\* the first one left them.
C18_BeginIdempotent ==
  [][BeginStep =>
       LET r == BeginResult(mem', blk_num)
       IN  r.mem = mem' /\ r.blk_addr = blk_addr']_vars

\* begin resolved a pair of markers, and a further begin agrees with it
C18_Witness ==
  /\ op = "begin" /\ blocks.count = 2 /\ ~blocks.fmt
  /\ NonFree(mem, blk_num) = {blk_addr}
  /\ BeginResult(mem, blk_num).blk_addr = blk_addr

\* C19: a second fastFormat right after a fastFormat leaves the medium,
\* blk_addr and the result of get as the first one left them.
C19_FormatIdempotent ==
  [][FormatStep =>
       LET r == Reformat(mem', blk_num)
       IN  /\ r.mem = mem'
           /\ r.blk_addr = blk_addr'
           /\ Get(r.mem, r.blk_addr, data') = Get(mem', blk_addr', data')]_vars

\* fastFormat ran on a buffer that held a record
C19_Witness ==
  /\ op = "fastFormat" /\ nput > 0 /\ hist.k = hist.n
  /\ NonFree(mem, blk_num) = {}

(* ---------------- the order of put's writes ---------------- *)

\* the step is a call of put, run to its end or cut
PutStep == op' \in {"put", "crash"}

\* C20: in every put, cut or not, the writes done are a prefix of: every
\* payload byte of the destination block, then the destination's marker,
\* then FREE to the old block's marker; the last only if there was an old
\* block.
C20_CommitOrder ==
  [][PutStep =>
       LET ws == PutWrites(mem, blk_num, blk_addr, blk_mark, hist'.P)
       IN  /\ mem' = ApplyWrites(mem, ws, hist'.k)
           /\ \A i \in 1..PayloadSize : ws[i] = <<hist'.new + i, hist'.P[i]>>
           /\ ws[PayloadSize + 1][1] = hist'.new
           /\ ws[PayloadSize + 1][2] # FREE
           /\ IF hist'.old # 0
              THEN Len(ws) = PayloadSize + 2 /\ ws[PayloadSize + 2] = <<hist'.old, FREE>>
              ELSE Len(ws) = PayloadSize + 1]_vars

\* a put cut after the destination's marker was written and before the old
\* block was freed: the payload is in place and both markers are valid
C20_Witness ==
  /\ op = "crash" /\ hist.k = PayloadSize + 1 /\ hist.had /\ hist.old # hist.new
  /\ ReadBlock(mem, hist.new) = hist.P
  /\ mem[hist.new] # FREE /\ mem[hist.old] # FREE

(* ---------------- construction ---------------- *)

\* C13: construction with start address 0 fails: no engine with start_addr
\* = 0 comes to be used.
C13_ZeroStartRefused == (pc = "run") => start_addr # 0

\* at start address 0 a put that returned is not found by get
ZeroStartLosesPut ==
  /\ start_addr = 0 /\ op = "put" /\ GetNow[2] = FALSE /\ mem[blk_addr] # FREE

(* ---------------- the power-off-safety sketch ---------------- *)

\* C12: with 10 blocks from address 0x10 and every put cut right after the
\* new marker is written, in every power cycle after the first put begin
\* leaves exactly one non-free marker and get returns the record put in the
\* cycle before, the cycle that wraps from the last block to the first
\* included.
C12_PowerOffSafety ==
  /\ (op = "begin" /\ nput >= 1) => Cardinality(NonFree(mem, blk_num)) = 1
  /\ (op = "get" /\ nput >= 1) => (ret = 1 /\ data = hist.P)

\* the eleventh put wrapped to the first block, and the twelfth cycle read it
C12_Witness ==
  /\ op = "get" /\ nput = 11 /\ blk_num = BUFFER_LEN
  /\ hist.old = LastBlock(blk_num) /\ hist.new = start_addr
  /\ blk_addr = start_addr /\ ret = 1 /\ data = hist.P
  /\ NonFree(mem, blk_num) = {start_addr}

(* ---------------- rotation and wear ---------------- *)

\* the block after the one at address a, in cyclic order; the first if a = 0
CyclicNext(a, n) ==
  IF a = 0 THEN start_addr
  ELSE start_addr + ((((a - start_addr) \div blk_size) + 1) % n) * blk_size

\* C14: every put writes to the first block when there is no current block
\* and else to the block after the current one, cyclically; and after K puts
\* in a row, K >= blk_num, every block's marker has been written at least
\* K div blk_num times.
C14_RotationAndWear ==
  /\ [][(op' = "put") =>
          /\ hist'.new = CyclicNext(blk_addr, blk_num)
          /\ blk_addr' = hist'.new
          /\ wear'.wr[hist'.new] > wear.wr[hist'.new]]_vars
  /\ [](wear.k >= blk_num =>
          \A b \in BlockAddrs(blk_num) : wear.wr[b] >= wear.k \div blk_num)

\* the rotation went round twice
C14_Witness ==
  /\ op = "put" /\ blk_num >= 2 /\ wear.k >= 2 * blk_num
  /\ \A b \in BlockAddrs(blk_num) : wear.wr[b] >= 2

\* C15: over K puts in a row no byte of the medium, marker or payload, is
\* written more than the ceiling of K / blk_num times.
C15_WearCeiling ==
  \A a \in Addrs(blk_num) : wear.wr[a] <= (wear.k + blk_num - 1) \div blk_num

(* ---------------- the marker of put ---------------- *)

\* bit i of the byte v
Bit(v, i) == (v \div (2 ^ i)) % 2

\* the byte whose bit 0 is set and whose bit i is bit i - 1 of prev
ShiftedIn(prev) ==
  1 + 2 * Bit(prev, 0) + 4 * Bit(prev, 1) + 8 * Bit(prev, 2) + 16 * Bit(prev, 3)
    + 32 * Bit(prev, 4) + 64 * Bit(prev, 5) + 128 * Bit(prev, 6)

\* the marker that follows prev
NextMarker(prev) == IF ShiftedIn(prev) = 255 THEN 254 ELSE ShiftedIn(prev)

\* the marker put rotates from: the current block's, else the engine's own
PrevMarker == IF blk_addr # 0 THEN mem[blk_addr] ELSE blk_mark

\* C21: for every previous marker in 0x00..0xff the rotation yields
\* ((prev << 1) | 1) & 0xff, and 0xfe in place of 0xff; so every marker put
\* writes to its destination block is in 0x00..0xfe, never FREE.
C21_RotatorNeverFree ==
  /\ (op = "init") =>
       \A prev \in 0..255 : Rotate(prev) = NextMarker(prev) /\ Rotate(prev) \in 0..254
  /\ [][(op' = "put") =>
          /\ PrevMarker \in 0..255
          /\ blk_mark' = NextMarker(PrevMarker)
          /\ blk_mark' \in 0..254
          /\ PutWrites(mem, blk_num, blk_addr, blk_mark, hist'.P)[PayloadSize + 1]
               = <<hist'.new, blk_mark'>>]_vars

\* a put whose rotation came to 0xff wrote 0xfe: on one block the second put
\* rotates the FREE it left on its own marker
C21_Witness ==
  /\ op = "put" /\ blk_num = 1 /\ nput >= 2 /\ hist.had
  /\ blk_mark = 254 /\ hist.k = hist.n

\* C22 as stated, on buffers of two blocks or more: a put with no current
\* block writes the rotation of 0xfe, and a put with a current block the
\* rotation of that block's marker.
C22_EmptyUsesFallback ==
  [][(PutStep /\ blk_num >= 2) =>
       PutWrites(mem, blk_num, blk_addr, blk_mark, hist'.P)[PayloadSize + 1][2]
         = Rotate(IF blk_addr # 0 THEN mem[blk_addr] ELSE InitMark)]_vars

\* C22, amended: a put with no current block writes the rotation of the
\* engine's blk_mark, and a put with a current block the rotation of that
\* block's marker; blk_mark is 0xfe at construction and is changed by put
\* only, which leaves in it the marker it wrote.
C22_MarkerSource ==
  [][/\ PutStep =>
          PutWrites(mem, blk_num, blk_addr, blk_mark, hist'.P)[PayloadSize + 1][2]
            = Rotate(PrevMarker)
     /\ (op' = "put") => blk_mark' = Rotate(PrevMarker)
     /\ (op' # "put") => blk_mark' = (IF pc' = "off" THEN InitMark ELSE blk_mark)]_vars

\* a put on a buffer emptied by fastFormat after an earlier put wrote a
\* marker that is not the rotation of 0xfe
C22_Witness ==
  /\ op = "put" /\ ~hist.had /\ nput = 2 /\ blk_num >= 2
  /\ mem[hist.new] = blk_mark /\ blk_mark # Rotate(InitMark)

(* ---------------- the medium without outside writes ---------------- *)

\* C23: from a formatted buffer of two blocks or more, under puts, each cut
\* after any of its medium writes or not, power cycles and begins, the medium
\* never carries more than two non-free markers, two non-free markers are on
\* blocks that follow each other cyclically, and begin never formats.
C23_NoStrayMarkers ==
  LET nf == NonFree(mem, blk_num) IN
  /\ Cardinality(nf) <= 2
  /\ \A a \in nf : \A b \in nf \ {a} :
        CyclicNext(a, blk_num) = b \/ CyclicNext(b, blk_num) = a
  /\ ~blocks.fmt

\* begin recovered, without formatting, a put cut between its two marker
\* writes while it wrapped from the last block to the first of three or more
C23_Witness ==
  /\ Recovered /\ blk_num >= 3 /\ hist.k = PayloadSize + 1
  /\ hist.old = LastBlock(blk_num) /\ hist.new = start_addr
  /\ blocks.count = 2 /\ ~blocks.fmt
  /\ Cardinality(NonFree(mem, blk_num)) = 1

(* ---------------- where the operations write ---------------- *)

\* C24: every write of put is at an address of the buffer, in the
\* destination block or on the old block's marker, and put changes no other
\* byte; begin and fastFormat change marker bytes only, inside the buffer.
C24_WritesInside ==
  [][/\ PutStep =>
          LET ws == PutWrites(mem, blk_num, blk_addr, blk_mark, hist'.P)
              dest == hist'.new..(hist'.new + PayloadSize)
          IN  /\ hist'.new \in BlockAddrs(blk_num)
              /\ hist'.old \in {0} \cup BlockAddrs(blk_num)
              /\ \A i \in 1..Len(ws) :
                    /\ ws[i][1] >= start_addr /\ ws[i][1] < EndAddr(blk_num)
                    /\ ws[i][1] \in dest \cup ({hist'.old} \ {0})
              /\ \A a \in Addrs(blk_num) \ (dest \cup {hist'.old}) : mem'[a] = mem[a]
     /\ (BeginStep \/ FormatStep) =>
          /\ DOMAIN mem' = Addrs(blk_num)
          /\ \A a \in Addrs(blk_num) \ BlockAddrs(blk_num) : mem'[a] = mem[a]]_vars

\* a put wrote the last block of the buffer, up to its last byte, and freed
\* the block before it
C24_Witness ==
  /\ op = "put" /\ blk_num >= 2 /\ hist.had
  /\ hist.new = LastBlock(blk_num) /\ hist.old = hist.new - blk_size
  /\ mem[EndAddr(blk_num) - 1] = hist.P[PayloadSize]
  /\ mem[hist.old] = FREE

(* ---------------- the current block address ---------------- *)

\* C25: with start_addr # 0, after begin and after every later begin, put,
\* get or fastFormat, blk_addr is 0 or the address of a block:
\* start_addr + i * blk_size with 0 <= i < blk_num.
C25_CurrentAddrWellFormed ==
  (pc = "run" /\ start_addr # 0) =>
    \/ blk_addr = 0
    \/ \E i \in 0..(blk_num - 1) : blk_addr = start_addr + i * blk_size

\* a put on the last block wrapped to the first
C25_Witness ==
  /\ pc = "run" /\ op = "put" /\ blk_num >= 2 /\ start_addr # 0
  /\ hist.old = LastBlock(blk_num) /\ blk_addr = start_addr

====
